---- MODULE Spec2Model ----
(***************************************************************************)
(* Model of notebooks/data_dev_notebook.ipynb: the Fetcher                 *)
(* (fetch_wait_times) and the Aggregator (save_touring_plans_data).        *)
(*                                                                         *)
(* A nullable cell (a float64 NaN, a missing string, a NaT) is the empty   *)
(* tuple NULL; a present value v is the one-element tuple <<v>>.  A        *)
(* datetime string is the tuple of its characters.                         *)
(***************************************************************************)
EXTENDS Integers, Sequences, FiniteSets, TLC

VARIABLES
    pc,          \* position of save_touring_plans_data: "loop", "returned", "raised"
    idx,         \* number of mapping entries whose loop iteration has completed
    out_df,      \* the local out_df: the running table, then the filtered table
    returned,    \* the value handed to the caller: NULL until `return out_df`
    served,      \* per completed iteration, the raw table read_csv produced
    calls,       \* every invocation of fetch_wait_times, as <<attraction_name, url>>
    fw_name,     \* a stand-alone Fetcher call: the attraction_name argument
    fw_url,      \* a stand-alone Fetcher call: the url argument
    fw_csv,      \* a stand-alone Fetcher call: what reading the url yields
    fw_ret       \* a stand-alone Fetcher call: "pending", then its outcome

vars == <<pc, idx, out_df, returned, served, calls, fw_name, fw_url, fw_csv, fw_ret>>

aggVars == <<pc, idx, out_df, returned, served, calls>>
fwVars == <<fw_name, fw_url, fw_csv, fw_ret>>

-----------------------------------------------------------------------------
(* Bounds of the model *)

\* how many entries of url_lookup, from the first on, a build iterates over
MaxEntries == 2
\* how many raw rows all sources of one build hold together
MaxRows == 3
\* how many raw rows the table of a stand-alone Fetcher call holds
MaxFetchRows == 2

-----------------------------------------------------------------------------
(* Values *)

NULL == <<>>

Some(v) == <<v>>

SENTINEL == -999

\* the dictionary of attraction names and .csv urls, in insertion order
url_lookup ==
    << [attraction_name |-> "Alien Swirling Saucers",   url |-> "alien_saucers.csv"],
       [attraction_name |-> "Avatar Flight of Passage", url |-> "flight_of_passage.csv"],
       [attraction_name |-> "DINOSAUR",                 url |-> "dinosaur.csv"],
       [attraction_name |-> "Expedition Everest",       url |-> "expedition_everest.csv"],
       [attraction_name |-> "Kilimanjaro Safaris",      url |-> "kilimanjaro_safaris.csv"],
       [attraction_name |-> "Navi River Journey",       url |-> "navi_river.csv"],
       [attraction_name |-> "Pirates of the Caribbean", url |-> "pirates_of_caribbean.csv"],
       [attraction_name |-> "Rock n Roller Coaster",    url |-> "rock_n_rollercoaster.csv"],
       [attraction_name |-> "Seven Dwarfs Mine Train",  url |-> "7_dwarfs_train.csv"],
       [attraction_name |-> "Slinky Dog Dash",          url |-> "slinky_dog.csv"],
       [attraction_name |-> "Soarin",                   url |-> "soarin.csv"],
       [attraction_name |-> "Spaceship Earth",          url |-> "spaceship_earth.csv"],
       [attraction_name |-> "Splash Mountain",          url |-> "splash_mountain.csv"],
       [attraction_name |-> "Toy Story Mania",          url |-> "toy_story_mania.csv"] >>

\* the entries a bounded build iterates over
NumEntries == IF MaxEntries < Len(url_lookup) THEN MaxEntries ELSE Len(url_lookup)

-----------------------------------------------------------------------------
(* pd.to_datetime(..., format='%Y-%m-%d %H:%M:%S') on one cell *)

Digits == {"0", "1", "2", "3", "4", "5", "6", "7", "8", "9"}

DigitVal(c) ==
    CASE c = "0" -> 0 [] c = "1" -> 1 [] c = "2" -> 2 [] c = "3" -> 3
      [] c = "4" -> 4 [] c = "5" -> 5 [] c = "6" -> 6 [] c = "7" -> 7
      [] c = "8" -> 8 [] c = "9" -> 9

\* the number written by the digits s[from..to]
RECURSIVE Number(_, _, _)
Number(s, from, to) ==
    IF to < from THEN 0
    ELSE 10 * Number(s, from, to - 1) + DigitVal(s[to])

IsLeap(y) == (y % 4 = 0 /\ y % 100 # 0) \/ y % 400 = 0

DaysInMonth(y, m) ==
    IF m = 2 THEN (IF IsLeap(y) THEN 29 ELSE 28)
    ELSE IF m \in {4, 6, 9, 11} THEN 30
    ELSE 31

\* the positions of the literal characters of the format and of its digits
FormatLiterals == (5 :> "-") @@ (8 :> "-") @@ (11 :> " ") @@ (14 :> ":") @@ (17 :> ":")

FormatLen == 19

\* the string has the shape of the format: digits and literals in their places
MatchesFormat(s) ==
    /\ Len(s) = FormatLen
    /\ \A p \in 1..FormatLen :
          IF p \in DOMAIN FormatLiterals THEN s[p] = FormatLiterals[p]
          ELSE s[p] \in Digits

\* the fields the directives of the format read off the string
Fields(s) ==
    [year   |-> Number(s, 1, 4),
     month  |-> Number(s, 6, 7),
     day    |-> Number(s, 9, 10),
     hour   |-> Number(s, 12, 13),
     minute |-> Number(s, 15, 16),
     second |-> Number(s, 18, 19)]

\* the fields denote an instant of the calendar
ValidFields(f) ==
    /\ f.month \in 1..12
    /\ f.day \in 1..DaysInMonth(f.year, f.month)
    /\ f.hour \in 0..23
    /\ f.minute \in 0..59
    /\ f.second \in 0..59

\* a cell to_datetime converts without raising: a missing cell becomes NaT
Parses(s) == s = NULL \/ (MatchesFormat(s) /\ ValidFields(Fields(s)))

\* the Timestamp of a cell that parses; NaT is NULL
to_datetime(s) == IF s = NULL THEN NULL ELSE Some(Fields(s))

-----------------------------------------------------------------------------
(* fetch_wait_times *)

\* what reading the url yields: a raised error, or the table read_csv built
\* from the columns datetime, SACTMIN and SPOSTMIN
ReadOk(rows) == [status |-> "ok", rows |-> rows]

ReadError(kind) == [status |-> kind, rows |-> <<>>]

\* the ways the read raises: the transport fails, or a required column is missing
ReadErrorKinds == {"transport", "schema"}

\* the outcome of a call: the returned DataFrame, or the exception it raised
Return(df) == [status |-> "ok", df |-> df]

Raise(kind) == [status |-> kind, df |-> <<>>]

\* Series.dt accessors: NaT gives a missing value
dt_month(t) == IF t = NULL THEN NULL ELSE Some(t[1].month)

dt_hour(t) == IF t = NULL THEN NULL ELSE Some(t[1].hour)

\* a variant that counts the minutes since midnight
dt_minute_since_midnight(t) == IF t = NULL THEN NULL ELSE Some(60 * t[1].hour + t[1].minute)

dt_minute(t) == IF t = NULL THEN NULL ELSE Some(t[1].minute)

dt_year(t) == IF t = NULL THEN NULL ELSE Some(t[1].year)

dt_date(t) == IF t = NULL THEN NULL ELSE <<t[1].year, t[1].month, t[1].day>>

\* a variant that prefers the posted time
combine_first_posted(a, b) == IF b # NULL THEN b ELSE a

\* a variant that takes a -999 actual time for a missing one
combine_first_sentinel_missing(a, b) == IF a # NULL /\ a # Some(SENTINEL) THEN a ELSE b

\* Series.combine_first on two columns of one frame, cell by cell
combine_first(a, b) == IF a # NULL THEN a ELSE b

\* the transforms of one row, and the selection of the output columns
Transform(row, attraction_name) ==
    LET t == to_datetime(row.datetime)
    IN  [attraction_name  |-> attraction_name,
         date_id          |-> dt_date(t),
         month_of_year    |-> dt_month(t),
         hour_of_day      |-> dt_hour(t),
         minute_of_day    |-> dt_minute(t),
         year_of_calendar |-> dt_year(t),
         wait_time        |-> combine_first(row.SACTMIN, row.SPOSTMIN)]

\* a variant that drops the rows left without a wait_time
TransformAll_dropna(rows, attraction_name) ==
    SelectSeq([i \in 1..Len(rows) |-> Transform(rows[i], attraction_name)],
              LAMBDA r : r.wait_time # NULL)

\* the column-wise transforms keep the frame's index: one output row per row
TransformAll(rows, attraction_name) ==
    [i \in 1..Len(rows) |-> Transform(rows[i], attraction_name)]

\* to_datetime on the whole column raises when one cell does not parse
DatetimeColumnParses(rows) == \A i \in 1..Len(rows) : Parses(rows[i].datetime)

\* a variant that leaves out the rows whose datetime does not parse
fetch_wait_times_skip_unparsed(url, attraction_name, csv) ==
    IF csv.status # "ok" THEN Raise(csv.status)
    ELSE Return(TransformAll(SelectSeq(csv.rows, LAMBDA row : Parses(row.datetime)),
                             attraction_name))

\* csv is what pd.read_csv(url, ...) yields for this call
fetch_wait_times(url, attraction_name, csv) ==
    IF csv.status # "ok" THEN Raise(csv.status)
    ELSE IF ~DatetimeColumnParses(csv.rows) THEN Raise("parse")
    ELSE Return(TransformAll(csv.rows, attraction_name))

-----------------------------------------------------------------------------
(* Inputs *)

\* "2024-03-15 14:27:00"
DtSpecExample ==
    <<"2", "0", "2", "4", "-", "0", "3", "-", "1", "5", " ",
      "1", "4", ":", "2", "7", ":", "0", "0">>

\* "2023-12-31 23:59:58"
DtYearEnd ==
    <<"2", "0", "2", "3", "-", "1", "2", "-", "3", "1", " ",
      "2", "3", ":", "5", "9", ":", "5", "8">>

\* "2024-13-01 09:00:00": month 13
DtBadMonth ==
    <<"2", "0", "2", "4", "-", "1", "3", "-", "0", "1", " ",
      "0", "9", ":", "0", "0", ":", "0", "0">>

\* "03/15/2024 14:27:00": another layout
DtOtherLayout ==
    <<"0", "3", "/", "1", "5", "/", "2", "0", "2", "4", " ",
      "1", "4", ":", "2", "7", ":", "0", "0">>

\* "2023-02-29 10:05:00": no such day
DtNoSuchDay ==
    <<"2", "0", "2", "3", "-", "0", "2", "-", "2", "9", " ",
      "1", "0", ":", "0", "5", ":", "0", "0">>

GoodDatetimes == {DtSpecExample, DtYearEnd}

BadDatetimes == {DtBadMonth, DtOtherLayout, DtNoSuchDay}

RawRows(datetimes, waits) ==
    [datetime : datetimes, SACTMIN : waits, SPOSTMIN : waits]

Tables(rows, n) == UNION { [1..k -> rows] : k \in 0..n }

\* cells of the wait columns of a stand-alone Fetcher call
FetchWaits == {NULL, Some(SENTINEL), Some(45)}

FetchRows ==
    RawRows(GoodDatetimes \cup {NULL} \cup {DtBadMonth, DtOtherLayout}, FetchWaits)
        \cup RawRows({DtNoSuchDay}, {NULL})

\* cells of the wait columns of the sources of a build
BuildWaits == {NULL, Some(SENTINEL), Some(SENTINEL + 1)}

BuildRows ==
    RawRows({DtSpecExample}, BuildWaits) \cup RawRows({DtBadMonth}, {NULL})

\* what reading a url yields during a build, and for a stand-alone call
BuildResponses(n) ==
    { ReadOk(t) : t \in Tables(BuildRows, n) } \cup { ReadError(k) : k \in ReadErrorKinds }

FetchResponses ==
    { ReadOk(t) : t \in Tables(FetchRows, MaxFetchRows) } \cup { ReadError(k) : k \in ReadErrorKinds }

-----------------------------------------------------------------------------
(* save_touring_plans_data *)

\* out_df.wait_time != c, cell by cell: a NaN differs from every number
WaitTimeNe(w, c) == IF w = NULL THEN TRUE ELSE w[1] # c

\* a variant without the filter
KeepRow_all(r) == TRUE

\* a variant that keeps wait_time > -999: a NaN is not greater than a number
KeepRow_greater(r) == r.wait_time # NULL /\ r.wait_time[1] > SENTINEL

\* out_df[out_df.wait_time != -999].reset_index(drop=True)
KeepRow(r) == WaitTimeNe(r.wait_time, SENTINEL)

SentinelFilter(df) == SelectSeq(df, KeepRow)

\* a variant that puts the new source first
concat_prepend(df, context_df) == context_df \o df

\* pd.concat([out_df, context_df]).reset_index(drop=True)
concat(df, context_df) == df \o context_df

\* the raw rows the reads of a build have produced so far
RECURSIVE RowsServed(_)
RowsServed(s) ==
    IF s = <<>> THEN 0 ELSE Len(s[Len(s)].rows) + RowsServed(SubSeq(s, 1, Len(s) - 1))

Entry(k) == url_lookup[k]

\* a variant that reads the first url for every attraction
Call_first_url(k) == <<Entry(k).attraction_name, Entry(1).url>>

\* the arguments of the fetch of entry k: for attraction_name, url in url_lookup.items()
Call(k) == <<Entry(k).attraction_name, Entry(k).url>>

\* the outcome of the fetch of entry k when its read yields csv
FetchEntry(k, csv) == fetch_wait_times(Call(k)[2], Call(k)[1], csv)

\* the reads the bounded build can be given next
Admissible == BuildResponses(MaxRows - RowsServed(served))

\* one iteration of the loop whose fetch returns; the last one falls through
\* to the filter and the return
LoopIteration ==
    /\ pc = "loop"
    /\ idx < NumEntries
    /\ \E csv \in Admissible :
          LET r   == FetchEntry(idx + 1, csv)
              cat == concat(out_df, r.df)
          IN  /\ r.status = "ok"
              /\ calls' = Append(calls, Call(idx + 1))
              /\ served' = Append(served, csv)
              /\ idx' = idx + 1
              /\ IF idx + 1 = NumEntries
                 THEN /\ out_df' = SentinelFilter(cat)
                      /\ returned' = Some(SentinelFilter(cat))
                      /\ pc' = "returned"
                 ELSE /\ out_df' = cat
                      /\ returned' = returned
                      /\ pc' = "loop"
    /\ UNCHANGED fwVars

\* a variant that catches the exception and returns the table built so far
LoopIterationRaises_partial ==
    /\ pc = "loop"
    /\ idx < NumEntries
    /\ \E csv \in Admissible :
          /\ FetchEntry(idx + 1, csv).status # "ok"
          /\ calls' = Append(calls, Call(idx + 1))
          /\ served' = Append(served, csv)
    /\ out_df' = SentinelFilter(out_df)
    /\ returned' = Some(SentinelFilter(out_df))
    /\ pc' = "returned"
    /\ UNCHANGED idx
    /\ UNCHANGED fwVars

\* one iteration of the loop whose fetch raises: the exception leaves the
\* function, nothing is returned
LoopIterationRaises ==
    /\ pc = "loop"
    /\ idx < NumEntries
    /\ \E csv \in Admissible :
          LET r == FetchEntry(idx + 1, csv)
          IN  /\ r.status # "ok"
              /\ calls' = Append(calls, Call(idx + 1))
              /\ served' = Append(served, csv)
    /\ pc' = "raised"
    /\ UNCHANGED <<idx, out_df, returned>>
    /\ UNCHANGED fwVars

-----------------------------------------------------------------------------
(* a stand-alone call of fetch_wait_times *)

Pending == [status |-> "pending", df |-> <<>>]

CallFetch ==
    /\ fw_ret = Pending
    /\ fw_ret' = fetch_wait_times(fw_url, fw_name, fw_csv)
    /\ UNCHANGED <<fw_name, fw_url, fw_csv>>
    /\ UNCHANGED aggVars

-----------------------------------------------------------------------------
(* Specifications *)

\* a build, from the call of save_touring_plans_data on
Init ==
    /\ pc = "loop"
    /\ idx = 0
    /\ out_df = <<>>
    /\ returned = NULL
    /\ served = <<>>
    /\ calls = <<>>
    /\ fw_name = Entry(1).attraction_name
    /\ fw_url = Entry(1).url
    /\ fw_csv = ReadOk(<<>>)
    /\ fw_ret = Return(<<>>)

Next == LoopIteration \/ LoopIterationRaises

Spec == Init /\ [][Next]_vars

\* one call of fetch_wait_times on any url content
FetchInit ==
    /\ pc = "idle"
    /\ idx = 0
    /\ out_df = <<>>
    /\ returned = NULL
    /\ served = <<>>
    /\ calls = <<>>
    /\ \E k \in {1, Len(url_lookup)} :
          /\ fw_name = Entry(k).attraction_name
          /\ fw_url = Entry(k).url
    /\ fw_csv \in FetchResponses
    /\ fw_ret = Pending

FetchNext == CallFetch

SpecFetch == FetchInit /\ [][FetchNext]_vars

-----------------------------------------------------------------------------
(* Vocabulary of the properties *)

\* the table a finished build returned
Built == pc = "returned"

Table == returned[1]

\* a read whose fetch must fail: the read itself raised, or a datetime cell
\* holds a string that is not a YYYY-MM-DD HH:MM:SS instant
FailingRead(csv) ==
    \/ csv.status \in ReadErrorKinds
    \/ \E i \in 1..Len(csv.rows) : csv.rows[i].datetime \in BadDatetimes

\* the positions <<k, j>> of the raw rows served to a build
RawPositions == UNION { { <<k, j>> : j \in 1..Len(served[k].rows) } : k \in 1..Len(served) }

RawRow(p) == served[p[1]].rows[p[2]]

\* the records source k contributed before the filter
Fetched(k) == FetchEntry(k, served[k]).df

\* how often record r occurs in table df
Occurrences(df, r) == Cardinality({ i \in 1..Len(df) : df[i] = r })

\* the rows of table df that carry the name of entry k, in order
OfEntry(df, k) == SelectSeq(df, LAMBDA r : r.attraction_name = url_lookup[k].attraction_name)

NotSentinel(r) == r.wait_time # Some(SENTINEL)

\* the index of the entry a record is labelled with
EntryOf(r) == CHOOSE k \in 1..Len(url_lookup) : url_lookup[k].attraction_name = r.attraction_name

-----------------------------------------------------------------------------
(* Properties of the Aggregator, checked under Spec *)

\* C1: the table a build returns holds no record whose wait_time is -999,
\* and every fetched record whose wait_time is anything else (-998, a missing
\* value) is in it as often as it was fetched.
C1_SentinelFiltering ==
    Built =>
        /\ \A i \in 1..Len(Table) : Table[i].wait_time # Some(SENTINEL)
        /\ \A k \in 1..Len(served) : \A j \in 1..Len(Fetched(k)) :
              NotSentinel(Fetched(k)[j]) =>
                  Occurrences(Table, Fetched(k)[j]) = Occurrences(Fetched(k), Fetched(k)[j])

\* a build returned after fetching a -999 record and a -998 record
C1_Witness ==
    /\ Built
    /\ \E k \in 1..Len(served) : \E j \in 1..Len(Fetched(k)) :
          Fetched(k)[j].wait_time = Some(SENTINEL)
    /\ \E k \in 1..Len(served) : \E j \in 1..Len(Fetched(k)) :
          Fetched(k)[j].wait_time = Some(-998)
    /\ \E i \in 1..Len(Table) : Table[i].wait_time = Some(-998)

\* C3: once the read of one entry fails (transport, schema or parse), the
\* build has raised: it has returned no table, neither the rows fetched
\* before the failure nor a table that leaves the failed source out, and the
\* failed fetch is the last one it made.
C3_FailurePropagation ==
    \A k \in 1..Len(served) :
        FailingRead(served[k]) =>
            /\ pc = "raised"
            /\ returned = NULL
            /\ k = Len(served)

\* the second entry's read failed in transport after the first entry
\* contributed rows
C3_Witness ==
    /\ pc = "raised"
    /\ Len(served) = 2
    /\ served[2].status = "transport"
    /\ Len(out_df) > 0
    /\ returned = NULL

\* C4: in the returned table the rows of an earlier mapping entry precede
\* those of a later one, and the rows of each entry are that source's
\* retained records in the order the source had them.
C4_ConcatenationOrder ==
    Built =>
        /\ \A i, j \in 1..Len(Table) : i < j => EntryOf(Table[i]) <= EntryOf(Table[j])
        /\ \A k \in 1..Len(served) :
              OfEntry(Table, k) = SelectSeq(Fetched(k), NotSentinel)

\* two distinct retained rows of the first entry, then one of the second
C4_Witness ==
    /\ Built
    /\ Len(Table) = 3
    /\ EntryOf(Table[1]) = 1
    /\ EntryOf(Table[2]) = 1
    /\ Table[1] # Table[2]
    /\ EntryOf(Table[3]) = 2

\* C7: the fetches made so far are those of the first entries of the mapping,
\* one each, in the mapping's order and with each entry's own name and url;
\* a build that returned made exactly one per entry, and a failed fetch is
\* the last fetch made.
C7_FetchSchedule ==
    /\ Len(calls) <= NumEntries
    /\ Len(calls) = Len(served)
    /\ \A k \in 1..Len(calls) :
          calls[k] = <<url_lookup[k].attraction_name, url_lookup[k].url>>
    /\ Built => Len(calls) = NumEntries
    /\ \A k \in 1..Len(served) : FailingRead(served[k]) => k = Len(calls)
    /\ pc = "raised" => Len(calls) > 0 /\ FailingRead(served[Len(served)])

\* a build that returned after fetching more than one entry
C7_Witness ==
    /\ Built
    /\ Len(calls) > 1
    /\ calls[1] # calls[2]

\* C9: of the rows a source served, those the returned table keeps are the
\* rows whose SACTMIN is not -999 and that do not have a missing SACTMIN with
\* a SPOSTMIN of -999: a row with SACTMIN = -999 is removed whatever its
\* SPOSTMIN holds.
C9_SentinelActualRemoved ==
    Built =>
        \A k \in 1..Len(served) :
            Len(OfEntry(Table, k)) =
                Cardinality({ j \in 1..Len(served[k].rows) :
                    /\ served[k].rows[j].SACTMIN # Some(SENTINEL)
                    /\ ~ ( /\ served[k].rows[j].SACTMIN = NULL
                           /\ served[k].rows[j].SPOSTMIN = Some(SENTINEL) ) })

\* a source served only a row with SACTMIN = -999 and SPOSTMIN = -998, and
\* the returned table has no row of that source
C9_Witness ==
    /\ Built
    /\ \E k \in 1..Len(served) :
          /\ Len(served[k].rows) = 1
          /\ served[k].rows[1].SACTMIN = Some(SENTINEL)
          /\ served[k].rows[1].SPOSTMIN = Some(-998)
          /\ OfEntry(Table, k) = <<>>

\* C10: the returned table has one row with a missing wait_time per served
\* row whose SACTMIN and SPOSTMIN are both missing, and its row count is the
\* number of served rows minus the number of rows whose wait_time is -999.
C10_NullWaitRetained ==
    Built =>
        /\ Cardinality({ i \in 1..Len(Table) : Table[i].wait_time = NULL })
              = Cardinality({ p \in RawPositions :
                    RawRow(p).SACTMIN = NULL /\ RawRow(p).SPOSTMIN = NULL })
        /\ Len(Table)
              = RowsServed(served)
                - Cardinality({ p \in RawPositions :
                      Fetched(p[1])[p[2]].wait_time = Some(SENTINEL) })

\* a row with both columns missing and a -999 row were served, and the table
\* returned has a row with a missing wait_time
C10_Witness ==
    /\ Built
    /\ \E p \in RawPositions : RawRow(p).SACTMIN = NULL /\ RawRow(p).SPOSTMIN = NULL
    /\ \E p \in RawPositions : Fetched(p[1])[p[2]].wait_time = Some(SENTINEL)
    /\ \E i \in 1..Len(Table) : Table[i].wait_time = NULL
    /\ Len(Table) < RowsServed(served)

-----------------------------------------------------------------------------
(* Properties of the Fetcher, checked under SpecFetch *)

\* the stand-alone call has returned a DataFrame
Fetched_ok == fw_ret.status = "ok"

\* C2: in the DataFrame a call returns, the wait_time of each row is the
\* row's SACTMIN when that is present, else its SPOSTMIN when that is
\* present, else missing.
C2_CoalesceLaw ==
    Fetched_ok =>
        \A i \in 1..Len(fw_csv.rows) :
            LET row == fw_csv.rows[i]
                w   == fw_ret.df[i].wait_time
            IN  /\ row.SACTMIN # NULL => w = row.SACTMIN
                /\ (row.SACTMIN = NULL /\ row.SPOSTMIN # NULL) => w = row.SPOSTMIN
                /\ (row.SACTMIN = NULL /\ row.SPOSTMIN = NULL) => w = NULL

\* a call returned for a first row whose two columns hold different numbers
\* and a second row that has only SPOSTMIN
C2_Witness ==
    /\ Fetched_ok
    /\ Len(fw_csv.rows) = 2
    /\ fw_csv.rows[1].SACTMIN = Some(45)
    /\ fw_csv.rows[1].SPOSTMIN = Some(SENTINEL)
    /\ fw_csv.rows[2].SACTMIN = NULL
    /\ fw_csv.rows[2].SPOSTMIN = Some(45)

\* the record a raw row must become, as far as the row's cells are told
\* apart: the coalesced wait, the label, and the date of its datetime
RecordOfRow(rec, row) ==
    /\ rec.attraction_name = fw_name
    /\ rec.wait_time = (IF row.SACTMIN = NULL THEN row.SPOSTMIN ELSE row.SACTMIN)
    /\ row.datetime = NULL => rec.date_id = NULL
    /\ row.datetime = DtSpecExample => rec.date_id = <<2024, 3, 15>>
    /\ row.datetime = DtYearEnd => rec.date_id = <<2023, 12, 31>>

\* C5: a call on a table whose datetime cells are all well formed returns,
\* and a DataFrame a call returns has one record per input row, the i-th
\* record being that of the i-th row, rows with a missing or -999 wait_time
\* included.
C5_RowPreservation ==
    /\ ( /\ fw_ret # Pending
         /\ fw_csv.status = "ok"
         /\ \A i \in 1..Len(fw_csv.rows) : fw_csv.rows[i].datetime \in GoodDatetimes )
       => Fetched_ok
    /\ Fetched_ok =>
          /\ Len(fw_ret.df) = Len(fw_csv.rows)
          /\ \A i \in 1..Len(fw_csv.rows) : RecordOfRow(fw_ret.df[i], fw_csv.rows[i])

\* a call returned two records, of different dates, for a row with a missing
\* wait_time followed by a row with wait_time -999
C5_Witness ==
    /\ Fetched_ok
    /\ Len(fw_ret.df) = 2
    /\ fw_csv.rows[1].datetime = DtYearEnd
    /\ fw_csv.rows[2].datetime = DtSpecExample
    /\ fw_ret.df[1].wait_time = NULL
    /\ fw_ret.df[2].wait_time = Some(SENTINEL)

Derived(rec) ==
    <<rec.date_id, rec.month_of_year, rec.hour_of_day, rec.minute_of_day, rec.year_of_calendar>>

\* C8: the derived fields of a record are the month, hour, minute of the
\* hour, year and date of its row's datetime: "2024-03-15 14:27:00" gives
\* 3, 14, 27, 2024 and 2024-03-15, "2023-12-31 23:59:58" gives 12, 23, 59,
\* 2023 and 2023-12-31, and rows of equal datetime get equal derived fields
\* whatever their wait columns hold.
C8_DerivedFields ==
    Fetched_ok =>
        /\ \A i \in 1..Len(fw_csv.rows) :
              /\ fw_csv.rows[i].datetime = DtSpecExample =>
                    Derived(fw_ret.df[i]) = <<<<2024, 3, 15>>, <<3>>, <<14>>, <<27>>, <<2024>>>>
              /\ fw_csv.rows[i].datetime = DtYearEnd =>
                    Derived(fw_ret.df[i]) = <<<<2023, 12, 31>>, <<12>>, <<23>>, <<59>>, <<2023>>>>
        /\ \A i, j \in 1..Len(fw_csv.rows) :
              fw_csv.rows[i].datetime = fw_csv.rows[j].datetime =>
                  Derived(fw_ret.df[i]) = Derived(fw_ret.df[j])

\* a call returned for the spec's example datetime and for a second datetime
\* with different wait columns
C8_Witness ==
    /\ Fetched_ok
    /\ Len(fw_csv.rows) = 2
    /\ fw_csv.rows[1].datetime = DtSpecExample
    /\ fw_csv.rows[2].datetime = DtYearEnd
    /\ fw_ret.df[1].wait_time # fw_ret.df[2].wait_time
    /\ fw_ret.df[1].minute_of_day = Some(27)

====
